---------------------------- MODULE Spec2Model ----------------------------
(***************************************************************************)
(* R307 fingerprint sensor serial protocol: the packet codec, the command  *)
(* transactions, the chunked template transfer and the capture / match     *)
(* workflows of backend/finger/capture/finger_capture.py and               *)
(* backend/finger/match/finger_match.py.                                   *)
(*                                                                         *)
(* Bytes are integers 0..255, byte strings are sequences of bytes.  The    *)
(* 32-bit device address is kept as its two big-endian 16-bit halves       *)
(* <<hi, lo>>, because 0xFFFFFFFF does not fit TLC's 32-bit integers.       *)
(***************************************************************************)
EXTENDS Integers, Sequences, FiniteSets, TLC

VARIABLES
    \* ---- packet codec exercised on its own (SpecCodec)
    c_pc,       \* "ready" | "written" | "read"
    c_in,       \* arguments of _write_packet: [address, packet_type, data]
    c_out,      \* outcome of _write_packet: [raised, written]
    c_line,     \* the bytes on the serial line, as the reader will see them
    c_flip,     \* <<byte index, bit>> of the bit flipped on the line, or <<0, 0>>
    c_got,      \* what _read_packet returned
    \* ---- one workflow invocation on one sensor object (Spec)
    wf,         \* "none" | "auth" | "capture" | "cgt": the method that was called
    pc,         \* position in the method
    conn,       \* serial_conn: "none" | "open" | "closed"
    template,   \* template_data passed to authenticate_user_with_template
    attempt,    \* the loop variable of the attempt loop
    wire,       \* history: the packets written so far, [packet_type, data]
    lastRead,   \* what the latest _read_packet returned
    dlReply,    \* what _read_packet returned after the DownloadTemplate command
    acc,        \* template_data, the accumulator of upload_template
    rx,         \* history: the packets the sensor streamed after the Ack of UploadTemplate
    result,     \* the return value: [success, confidence, template, message];
                \* message names the return statement ("struct.error" and
                \* "serial.error": the one in `except Exception`)
    capPattern, \* history of the CaptureImage replies, see NextPattern
    firstTerminal, \* history: attempt 1 was answered by a terminal status
    \* ---- the size normalisation of a received template on its own (SpecNorm)
    n_in,       \* the bytes received from the sensor
    n_count,    \* how many times the normalisation was applied (0..2)
    n_first,    \* outcome of the first application: [accepted, template_data]
    n_out,      \* outcome of the latest application
    \* ---- authenticate_user_with_template on a serial line that keeps its
    \* ---- unread bytes (SpecLine)
    l_pc,       \* position in the method
    l_attempt,  \* the loop variable of the attempt loop
    l_pending,  \* the bytes the sensor has sent and no read has consumed, in
                \* order: in the input buffer or still on their way
    l_cmds,     \* history: the number of command packets written
    l_late,     \* history: the number of reads that ended before all pending
                \* bytes had arrived
    l_got,      \* what the latest _read_packet returned
    l_result,   \* the return value: [success, confidence]
    l_tags,     \* history: for each pending byte, the number (in l_cmds) of
                \* the command it is the sensor's reply to
    l_src,      \* history: the commands whose reply bytes the latest
                \* _read_packet consumed
    \* ---- two request handlers of app.py at once, each with its own sensor
    \* ---- object on the same port (SpecConc)
    k_pc,       \* position of each invocation in its workflow method
    k_attempt,  \* the loop variable of each invocation's attempt loop
    k_open      \* whether each invocation's serial_conn is open

codecVars == <<c_pc, c_in, c_out, c_line, c_flip, c_got>>

wfVars == <<wf, pc, conn, template, attempt, wire, lastRead, dlReply, acc, rx,
            result, capPattern, firstTerminal>>

normVars == <<n_in, n_count, n_first, n_out>>

lineVars == <<l_pc, l_attempt, l_pending, l_cmds, l_late, l_got, l_result,
              l_tags, l_src>>

concVars == <<k_pc, k_attempt, k_open>>

vars == <<codecVars, wfVars, normVars, lineVars, concVars>>

(***************************************************************************)
(* Protocol constants, as the two sensor classes define them.              *)
(***************************************************************************)
CMD_GET_IMAGE == 1
CMD_IMG_2_TZ == 2

\* the sensor's Store instruction (0x06) in the place of Match: a faulty
\* variant, which C17 tells from the class
CMD_MATCH_AS_STORE == 3 + 3

CMD_MATCH == 3
CMD_UP_CHAR == 8
CMD_DOWN_CHAR == 9

FINGERPRINT_OK == 0
FINGERPRINT_PACKETRECIEVEERR == 1
FINGERPRINT_NOFINGER == 2
FINGERPRINT_IMAGEFAIL == 3
FINGERPRINT_IMAGEMESS == 6
FINGERPRINT_FEATUREFAIL == 7
FINGERPRINT_NOMATCH == 8
FINGERPRINT_INVALIDIMAGE == 21

FINGERPRINT_STARTCODE == 61185   \* 0xEF01
FINGERPRINT_COMMANDPACKET == 1
FINGERPRINT_DATAPACKET == 2
FINGERPRINT_ACKPACKET == 7
FINGERPRINT_ENDDATAPACKET == 8

\* address=0xFFFFFFFF, the default of __init__, as <<hi, lo>>
DefaultAddress == <<65535, 65535>>

(***************************************************************************)
(* Byte-string helpers (Python slicing and serial reads).                  *)
(***************************************************************************)
MinOf(a, b) == IF a < b THEN a ELSE b

\* s[:n]; also serial.read(n) on a line holding s: at most n bytes, fewer
\* when the line runs dry before the read timeout.
Take(s, n) == SubSeq(s, 1, MinOf(n, Len(s)))

\* s[n:]
Drop(s, n) == IF n >= Len(s) THEN <<>> ELSE SubSeq(s, n + 1, Len(s))

RECURSIVE SumRange(_, _, _)
\* s[lo] + ... + s[hi], summed by halves to keep the evaluation shallow
SumRange(s, lo, hi) ==
    IF lo > hi THEN 0
    ELSE IF lo = hi THEN s[lo]
    ELSE LET mid == (lo + hi) \div 2
         IN  SumRange(s, lo, mid) + SumRange(s, mid + 1, hi)

\* sum(data)
SumBytes(s) == SumRange(s, 1, Len(s))

\* n bytes seed+1, seed+2, ... (mod 256): distinguishable test data
Fill(n, seed) == [i \in 1..n |-> (seed + i) % 256]

\* n copies of byte b
Const(n, b) == [i \in 1..n |-> b]

(***************************************************************************)
(* struct.pack: a value outside the format's range raises struct.error.    *)
(* A packing outcome is [raised, bytes].                                   *)
(***************************************************************************)
Raised == [raised |-> TRUE, bytes |-> <<>>]

Packed(b) == [raised |-> FALSE, bytes |-> b]

\* struct.pack('>B', v)
pack_B(v) == IF v \in 0..255 THEN Packed(<<v>>) ELSE Raised

\* struct.pack('>H', v)
pack_H(v) == IF v \in 0..65535 THEN Packed(<<v \div 256, v % 256>>) ELSE Raised

\* struct.pack('>I', address), address given as <<hi, lo>>
pack_I(a) ==
    IF pack_H(a[1]).raised \/ pack_H(a[2]).raised THEN Raised
    ELSE Packed(pack_H(a[1]).bytes \o pack_H(a[2]).bytes)

\* struct.unpack('>H', b)[0]
unpack_H(b) == b[1] * 256 + b[2]

\* checksum = packet_type + len(data) + 2 + sum(data)   (no reduction mod 65536)
Checksum(packet_type, data) == packet_type + Len(data) + 2 + SumBytes(data)

(***************************************************************************)
(* _write_packet: [raised, written].  When a struct.pack raises, the       *)
(* exception leaves the method before serial_conn.write: nothing is        *)
(* written.                                                                *)
(***************************************************************************)
_write_packet(address, packet_type, data) ==
    LET p1 == pack_H(FINGERPRINT_STARTCODE)
        p2 == pack_I(address)
        p3 == pack_B(packet_type)
        p4 == pack_H(Len(data) + 2)
        p5 == pack_H(Checksum(packet_type, data))
    IN  IF p1.raised \/ p2.raised \/ p3.raised \/ p4.raised \/ p5.raised
        THEN [raised |-> TRUE, written |-> <<>>]
        ELSE [raised |-> FALSE,
              written |-> p1.bytes \o p2.bytes \o p3.bytes \o p4.bytes
                          \o data \o p5.bytes]

(***************************************************************************)
(* _read_packet on a line that delivers the bytes of `line` and then runs  *)
(* into the read timeout.  The result is [packet_type, data]; Python's     *)
(* (None, None) is NoPacket (packet_type -1 matches no packet type).       *)
(* Neither the address nor the checksum is compared with anything.         *)
(***************************************************************************)
NoPacket == [packet_type |-> -1, data |-> <<>>]

_read_packet(line) ==
    LET header == Take(line, 2)
        r1 == Drop(line, 2)
        addr_data == Take(r1, 4)
        r2 == Drop(r1, 4)
        pid_data == Take(r2, 1)
        r3 == Drop(r2, 1)
        len_data == Take(r3, 2)
        r4 == Drop(r3, 2)
    IN  IF Len(header) # 2 THEN NoPacket
        ELSE IF unpack_H(header) # FINGERPRINT_STARTCODE THEN NoPacket
        ELSE IF Len(addr_data) # 4 THEN NoPacket
        ELSE IF Len(pid_data) # 1 THEN NoPacket
        ELSE IF Len(len_data) # 2 THEN NoPacket
        ELSE LET packet_len == unpack_H(len_data)
                 data_and_checksum == Take(r4, packet_len)
             IN  IF Len(data_and_checksum) # packet_len THEN NoPacket
                 ELSE [packet_type |-> pid_data[1],
                       \* data_and_checksum[:-2]
                       data |-> IF Len(data_and_checksum) <= 2 THEN <<>>
                                ELSE SubSeq(data_and_checksum, 1,
                                            Len(data_and_checksum) - 2)]

(***************************************************************************)
(* The codec on its own: one packet is written, possibly one bit of its    *)
(* header or payload is flipped on the line, and the packet is read back.  *)
(***************************************************************************)
\* number of distinct fill patterns used for test payloads
NumSeeds == 2

SmallPayloads ==
    {<<>>, <<FINGERPRINT_OK>>, <<FINGERPRINT_NOFINGER>>,
     <<CMD_DOWN_CHAR, 1>>, <<FINGERPRINT_OK, 1, 2>>}
    \cup {Fill(5, s) : s \in 1..NumSeeds}

\* payloads of the chunk size and of the sensor's largest data packet (256)
LargePayloads ==
    {Fill(128, s) : s \in 1..NumSeeds} \cup {Const(128, 255), Const(255, 255), Const(256, 255)}

PacketTypes ==
    {FINGERPRINT_COMMANDPACKET, FINGERPRINT_DATAPACKET,
     FINGERPRINT_ACKPACKET, FINGERPRINT_ENDDATAPACKET}

CodecInputs ==
    [address : {DefaultAddress, <<0, 1>>}, packet_type : PacketTypes, data : SmallPayloads]
    \cup [address : {DefaultAddress},
          packet_type : {FINGERPRINT_DATAPACKET, FINGERPRINT_ENDDATAPACKET},
          data : LargePayloads]

\* byte b with bit k (0 = least significant) inverted
FlipBit(b, k) == IF (b \div (2 ^ k)) % 2 = 1 THEN b - 2 ^ k ELSE b + 2 ^ k

NoResult == [success |-> FALSE, confidence |-> 0, template |-> <<>>, message |-> "none"]

\* no workflow has been called
WfIdle ==
    /\ wf = "none"
    /\ pc = "idle"
    /\ conn = "none"
    /\ template = <<>>
    /\ attempt = 0
    /\ wire = <<>>
    /\ lastRead = NoPacket
    /\ dlReply = NoPacket
    /\ acc = <<>>
    /\ rx = <<>>
    /\ result = NoResult
    /\ capPattern = "none"
    /\ firstTerminal = FALSE

\* no normalisation is exercised
NormIdle ==
    /\ n_in = <<>>
    /\ n_count = 0
    /\ n_first = [accepted |-> FALSE, template_data |-> <<>>]
    /\ n_out = [accepted |-> FALSE, template_data |-> <<>>]

\* the invocations whose requests overlap: authenticate_user_with_template
\* called by /api/authenticate, capture_fingerprint_template_data called by
\* /api/capture-fingerprint
Invocations == {"auth", "capture"}

\* no request is being handled
ConcIdle ==
    /\ k_pc = [i \in Invocations |-> "idle"]
    /\ k_attempt = [i \in Invocations |-> 0]
    /\ k_open = [i \in Invocations |-> FALSE]

\* the line is not exercised
LineIdle ==
    /\ l_pc = "idle"
    /\ l_attempt = 0
    /\ l_pending = <<>>
    /\ l_cmds = 0
    /\ l_late = 0
    /\ l_got = NoPacket
    /\ l_result = [success |-> FALSE, confidence |-> 0]
    /\ l_tags = <<>>
    /\ l_src = {}

\* no packet is exercised
CodecIdle ==
    /\ c_pc = "ready"
    /\ c_in = [address |-> DefaultAddress, packet_type |-> FINGERPRINT_COMMANDPACKET,
               data |-> <<>>]
    /\ c_out = [raised |-> FALSE, written |-> <<>>]
    /\ c_line = <<>>
    /\ c_flip = <<0, 0>>
    /\ c_got = NoPacket

CodecInit ==
    /\ c_pc = "ready"
    /\ c_in \in CodecInputs
    /\ c_out = [raised |-> FALSE, written |-> <<>>]
    /\ c_line = <<>>
    /\ c_flip = <<0, 0>>
    /\ c_got = NoPacket
    /\ WfIdle
    /\ NormIdle
    /\ LineIdle
    /\ ConcIdle

CodecWrite ==
    /\ c_pc = "ready"
    /\ c_out' = _write_packet(c_in.address, c_in.packet_type, c_in.data)
    /\ c_line' = c_out'.written
    /\ c_pc' = "written"
    /\ UNCHANGED <<c_in, c_flip, c_got, wfVars, normVars, lineVars, concVars>>

\* line noise: one bit of the header or of the payload (not of the two
\* checksum bytes) arrives inverted
CodecFlip ==
    /\ c_pc = "written"
    /\ c_flip = <<0, 0>>
    /\ ~c_out.raised
    /\ \E i \in 1..(Len(c_line) - 2), k \in 0..7 :
          /\ c_line' = [c_line EXCEPT ![i] = FlipBit(c_line[i], k)]
          /\ c_flip' = <<i, k>>
    /\ UNCHANGED <<c_pc, c_in, c_out, c_got, wfVars, normVars, lineVars, concVars>>

CodecRead ==
    /\ c_pc = "written"
    /\ c_got' = _read_packet(c_line)
    /\ c_pc' = "read"
    /\ UNCHANGED <<c_in, c_out, c_line, c_flip, wfVars, normVars, lineVars, concVars>>

CodecNext == CodecWrite \/ CodecFlip \/ CodecRead

SpecCodec == CodecInit /\ [][CodecNext]_vars

(***************************************************************************)
(* C5  Round trip: for every packet type, device address and payload       *)
(* whose length is within the protocol's maximum, reading back the bytes   *)
(* written by _write_packet(type, payload) yields exactly (type, payload). *)
(***************************************************************************)
C5_RoundTrip ==
    (c_pc = "read" /\ c_flip = <<0, 0>>)
        => /\ ~c_out.raised
           /\ c_got = [packet_type |-> c_in.packet_type, data |-> c_in.data]

(***************************************************************************)
(* C6  Checksum detection: a frame that differs from a correctly encoded   *)
(* frame by one flipped bit of its header or payload is rejected and never *)
(* delivered as a valid frame.                                             *)
(***************************************************************************)
C6_FlippedBitRejected ==
    (c_pc = "read" /\ c_flip # <<0, 0>>) => c_got = NoPacket

(***************************************************************************)
(* The sensor, as the workflows see it: for each read it puts some bytes   *)
(* on the line.  A well-formed packet carries the sensor's own checksum    *)
(* (the sum reduced mod 65536); the line may also stay silent until the    *)
(* read timeout, deliver a packet cut short, or deliver noise.             *)
(***************************************************************************)
SensorFrame(packet_type, data) ==
    pack_H(FINGERPRINT_STARTCODE).bytes \o pack_I(DefaultAddress).bytes
        \o <<packet_type>> \o pack_H(Len(data) + 2).bytes \o data
        \o pack_H(Checksum(packet_type, data) % 65536).bytes

StatusCodes ==
    {FINGERPRINT_OK, FINGERPRINT_NOFINGER, FINGERPRINT_IMAGEFAIL, FINGERPRINT_IMAGEMESS,
     FINGERPRINT_FEATUREFAIL, FINGERPRINT_NOMATCH, FINGERPRINT_INVALIDIMAGE,
     85}   \* 85: a status code the classes do not name

\* lines on which _read_packet finds no packet: silence, a packet cut short
\* inside its header, a packet cut short inside its payload, noise
BrokenLines ==
    {<<>>,
     Take(SensorFrame(FINGERPRINT_ACKPACKET, <<FINGERPRINT_OK>>), 5),
     Take(SensorFrame(FINGERPRINT_ACKPACKET, <<FINGERPRINT_OK>>), 10),
     <<0, 0>> \o SensorFrame(FINGERPRINT_ACKPACKET, <<FINGERPRINT_OK>>)}

\* what may arrive in reply to a command with a one-byte status
AckLines ==
    {SensorFrame(FINGERPRINT_ACKPACKET, <<st>>) : st \in StatusCodes}
    \cup {SensorFrame(FINGERPRINT_ACKPACKET, <<>>),
          SensorFrame(FINGERPRINT_DATAPACKET, <<FINGERPRINT_OK>>)}
    \cup BrokenLines

\* match scores the sensor may report
Scores == {<<0, 0>>, <<0, 77>>, <<1, 2>>, <<255, 255>>}

\* what may arrive in reply to MatchTemplates
MatchLines ==
    {SensorFrame(FINGERPRINT_ACKPACKET, <<FINGERPRINT_OK>> \o sc) : sc \in Scores}
    \cup {SensorFrame(FINGERPRINT_ACKPACKET, <<FINGERPRINT_NOMATCH, 0, 0>>),
          SensorFrame(FINGERPRINT_ACKPACKET, <<FINGERPRINT_PACKETRECIEVEERR, 0, 0>>),
          SensorFrame(FINGERPRINT_ACKPACKET, <<FINGERPRINT_OK>>),
          SensorFrame(FINGERPRINT_DATAPACKET, <<FINGERPRINT_OK, 0, 7>>)}
    \cup BrokenLines

\* the most Data packets the sensor streams in one upload
MaxUpFrames == 4

\* payload sizes of the packets the sensor streams in an upload
UpSizes == {0, 2, 128}

\* what the sensor may send while upload_template reads the stream (NoPacket:
\* it stays silent); the payload of the n-th packet is filled from n, so that
\* order shows in the result
UpPackets ==
    {[packet_type |-> FINGERPRINT_ENDDATAPACKET, data |-> Fill(n, 16 * Len(rx))] : n \in UpSizes}
    \cup (IF Len(rx) < MaxUpFrames
          THEN {[packet_type |-> FINGERPRINT_DATAPACKET, data |-> Fill(n, 16 * Len(rx))] :
                    n \in UpSizes}
          ELSE {})
    \cup {[packet_type |-> FINGERPRINT_ACKPACKET, data |-> <<FINGERPRINT_OK>>], NoPacket}

\* the bytes the line carries for it
UpLine(q) == IF q = NoPacket THEN <<>> ELSE SensorFrame(q.packet_type, q.data)

\* the stored templates a caller may pass to authenticate_user_with_template
TemplateSizes == {0, 1, 128, 129, 256, 462, 512, 600}

\* a template of the expected size with every byte 0xFF stands for the
\* largest byte sums
Templates == {Fill(n, 1) : n \in TemplateSizes} \cup {Const(512, 255)}

(***************************************************************************)
(* How the methods read an acknowledgement.                                *)
(***************************************************************************)
\* get_image: True only for an Ack packet whose first byte is FINGERPRINT_OK;
\* every other status, and no packet at all, is False
get_image(p) ==
    IF p.packet_type = FINGERPRINT_ACKPACKET /\ Len(p.data) > 0
    THEN IF p.data[1] = FINGERPRINT_OK THEN TRUE
         ELSE IF p.data[1] = FINGERPRINT_NOFINGER THEN FALSE
         ELSE IF p.data[1] = FINGERPRINT_IMAGEFAIL THEN FALSE
         ELSE FALSE
    ELSE FALSE

\* image_2_template taking every acknowledgement for a success: a faulty
\* variant, which C20 tells from the method
image_2_template_lenient(p) ==
    p.packet_type = FINGERPRINT_ACKPACKET /\ Len(p.data) > 0

\* image_2_template
image_2_template(p) ==
    IF p.packet_type = FINGERPRINT_ACKPACKET /\ Len(p.data) > 0
    THEN IF p.data[1] = FINGERPRINT_OK THEN TRUE
         ELSE IF p.data[1] = FINGERPRINT_IMAGEMESS THEN FALSE
         ELSE IF p.data[1] = FINGERPRINT_FEATUREFAIL THEN FALSE
         ELSE FALSE
    ELSE FALSE

\* match_templates with the score unpacked from data[0:2] instead of
\* data[1:3]: a faulty variant, which C1 tells from the method
match_templates_shifted(p) ==
    IF p.packet_type = FINGERPRINT_ACKPACKET /\ Len(p.data) >= 3
    THEN IF p.data[1] = FINGERPRINT_OK
         THEN <<TRUE, unpack_H(SubSeq(p.data, 1, 2))>>
         ELSE <<FALSE, 0>>
    ELSE <<FALSE, 0>>

\* match_templates: <<match_result, confidence>>
match_templates(p) ==
    IF p.packet_type = FINGERPRINT_ACKPACKET /\ Len(p.data) >= 3
    THEN IF p.data[1] = FINGERPRINT_OK
         THEN <<TRUE, unpack_H(SubSeq(p.data, 2, 3))>>
         ELSE IF p.data[1] = FINGERPRINT_NOMATCH THEN <<FALSE, 0>>
         ELSE <<FALSE, 0>>
    ELSE <<FALSE, 0>>

\* the test without its look at the payload: a faulty variant, which C24
\* tells from the method
TransferRefusedByTypeOnly(p) == p.packet_type # FINGERPRINT_ACKPACKET

\* the test after the Ack of DownloadTemplate / UploadTemplate
TransferRefused(p) ==
    \/ p.packet_type # FINGERPRINT_ACKPACKET
    \/ Len(p.data) = 0
    \/ p.data[1] # FINGERPRINT_OK

(***************************************************************************)
(* download_template's loop: the packets it hands to _write_packet.        *)
(***************************************************************************)
\* half the chunk size: a faulty variant, which C7 tells from the method
chunk_size_halved == 128 \div 2

\* four times the chunk size: a faulty variant, which C29 tells from the method
chunk_size_fourfold == 128 * 4

chunk_size == 128

RECURSIVE SendChunks(_, _)
SendChunks(template_data, data_sent) ==
    IF data_sent < Len(template_data)
    THEN LET chunk_end == MinOf(data_sent + chunk_size, Len(template_data))
             chunk == SubSeq(template_data, data_sent + 1, chunk_end)
             packet == IF chunk_end = Len(template_data)
                       THEN [packet_type |-> FINGERPRINT_ENDDATAPACKET, data |-> chunk]
                       ELSE [packet_type |-> FINGERPRINT_DATAPACKET, data |-> chunk]
         IN  <<packet>> \o SendChunks(template_data, chunk_end)
    ELSE <<>>

\* a packet as the history records it
Pkt(packet_type, data) == [packet_type |-> packet_type, data |-> data]

Command(data) == Pkt(FINGERPRINT_COMMANDPACKET, data)

\* _write_packet raises on this packet
WriteRaises(p) == _write_packet(DefaultAddress, p.packet_type, p.data).raised

RECURSIVE WrittenPrefix(_)
\* the packets of a sequence of writes that reach the line: all of them, or
\* those before the first write that raises
WrittenPrefix(ps) ==
    IF ps = <<>> THEN <<>>
    ELSE IF WriteRaises(ps[1]) THEN <<>>
    ELSE <<ps[1]>> \o WrittenPrefix(Tail(ps))

(***************************************************************************)
(* History of the replies to CaptureImage:                                 *)
(*   "none"        no CaptureImage answered yet                            *)
(*   "nofinger"    every reply so far was an Ack with NoFingerPresent      *)
(*   "nofinger_ok" some NoFingerPresent replies, then one Ok, the latest   *)
(*   "other"       anything else                                           *)
(***************************************************************************)
IsStatus(p, st) ==
    p.packet_type = FINGERPRINT_ACKPACKET /\ Len(p.data) > 0 /\ p.data[1] = st

NextPattern(pat, p) ==
    IF pat \in {"none", "nofinger"}
    THEN IF IsStatus(p, FINGERPRINT_NOFINGER) THEN "nofinger"
         ELSE IF IsStatus(p, FINGERPRINT_OK) THEN "nofinger_ok"
         ELSE "other"
    ELSE "other"

\* the statuses the design calls terminal: ImageTooMessy, FeatureExtractionFailed,
\* InvalidImage and codes it does not know
TerminalStatus(p) ==
    /\ p.packet_type = FINGERPRINT_ACKPACKET
    /\ Len(p.data) > 0
    /\ p.data[1] \notin {FINGERPRINT_OK, FINGERPRINT_PACKETRECIEVEERR, FINGERPRINT_NOFINGER,
                         FINGERPRINT_IMAGEFAIL, FINGERPRINT_NOMATCH}

(***************************************************************************)
(* Leaving a workflow method: the return value, and the finally clause     *)
(* (disconnect() closes the connection that connect() opened).             *)
(***************************************************************************)
\* the return without the finally clause: a faulty variant, which C11 tells
\* from the methods
ReturnLeavingOpen(success, confidence, tmpl, message) ==
    /\ result' = [success |-> success, confidence |-> confidence,
                  template |-> tmpl, message |-> message]
    /\ conn' = conn
    /\ pc' = "done"

Return(success, confidence, tmpl, message) ==
    /\ result' = [success |-> success, confidence |-> confidence,
                  template |-> tmpl, message |-> message]
    /\ conn' = IF conn = "open" THEN "closed" ELSE conn
    /\ pc' = "done"

(***************************************************************************)
(* authenticate_user_with_template (R307FingerMatcher)                     *)
(***************************************************************************)
\* one attempt too many: a faulty variant, which C2 tells from the method
auth_max_attempts_plus_one == 5 + 1

auth_max_attempts == 5

\* the call, and connect(): serial.Serial(...) succeeds
AuthConnect ==
    /\ pc = "idle"
    /\ wf' = "auth"
    /\ template' \in Templates
    /\ conn' = "open"
    /\ pc' = "download"
    /\ UNCHANGED <<attempt, wire, lastRead, dlReply, acc, rx, result, capPattern,
                   firstTerminal, codecVars, normVars, lineVars, concVars>>

\* the call, and connect(): serial.Serial(...) raises SerialException
AuthConnectFails ==
    /\ pc = "idle"
    /\ wf' = "auth"
    /\ template' \in Templates
    /\ Return(FALSE, 0, <<>>, "connect")
    /\ UNCHANGED <<attempt, wire, lastRead, dlReply, acc, rx, capPattern,
                   firstTerminal, codecVars, normVars, lineVars, concVars>>

\* download_template(template_data, buffer_id=1): the command, its Ack and,
\* when the Ack is Ok, the whole stream of chunks
AuthDownload ==
    /\ wf = "auth" /\ pc = "download"
    /\ LET cmd == Command(<<CMD_DOWN_CHAR, 1>>)
       IN  IF WriteRaises(cmd)
           THEN /\ Return(FALSE, 0, <<>>, "struct.error")
                /\ UNCHANGED <<wire, lastRead, dlReply, attempt>>
           ELSE \E line \in AckLines :
                  LET p == _read_packet(line)
                      chunks == SendChunks(template, 0)
                      sent == WrittenPrefix(chunks)
                  IN  /\ lastRead' = p
                      /\ dlReply' = p
                      /\ IF TransferRefused(p)
                         THEN /\ wire' = Append(wire, cmd)
                              /\ Return(FALSE, 0, <<>>, "download")
                              /\ UNCHANGED attempt
                         ELSE /\ wire' = Append(wire, cmd) \o sent
                              /\ IF Len(sent) < Len(chunks)
                                 THEN /\ Return(FALSE, 0, <<>>, "struct.error")
                                      /\ UNCHANGED attempt
                                 ELSE /\ attempt' = 0
                                      /\ pc' = "get_image"
                                      /\ UNCHANGED <<result, conn>>
    /\ UNCHANGED <<wf, template, acc, rx, capPattern, firstTerminal, codecVars, normVars, lineVars, concVars>>

\* `continue`, or the end of an iteration: the next attempt, or the return
\* after the loop
AuthNextAttempt ==
    /\ attempt' = attempt + 1
    /\ IF attempt + 1 < auth_max_attempts
       THEN /\ pc' = "get_image"
            /\ UNCHANGED <<result, conn>>
       ELSE Return(FALSE, 0, <<>>, "exhausted")

\* get_image() in the attempt loop
AuthGetImage ==
    /\ wf = "auth" /\ pc = "get_image"
    /\ LET cmd == Command(<<CMD_GET_IMAGE>>)
       IN  IF WriteRaises(cmd)
           THEN /\ Return(FALSE, 0, <<>>, "struct.error")
                /\ UNCHANGED <<wire, lastRead, attempt, capPattern, firstTerminal>>
           ELSE \E line \in AckLines :
                  LET p == _read_packet(line)
                  IN  /\ wire' = Append(wire, cmd)
                      /\ lastRead' = p
                      /\ capPattern' = NextPattern(capPattern, p)
                      /\ firstTerminal' = (firstTerminal \/ (attempt = 0 /\ TerminalStatus(p)))
                      /\ IF get_image(p)
                         THEN /\ pc' = "img2tz"
                              /\ UNCHANGED <<attempt, result, conn>>
                         ELSE AuthNextAttempt
    /\ UNCHANGED <<wf, template, dlReply, acc, rx, codecVars, normVars, lineVars, concVars>>

\* the live capture converted into the slot of the stored template: a faulty
\* variant, which C12 tells from the method
auth_live_buffer_id_stored == 2 - 1

\* image_2_template(buffer_id=2)
auth_live_buffer_id == 2

\* image_2_template(buffer_id=2) in the attempt loop
AuthImage2Tz ==
    /\ wf = "auth" /\ pc = "img2tz"
    /\ LET cmd == Command(<<CMD_IMG_2_TZ, auth_live_buffer_id>>)
       IN  IF WriteRaises(cmd)
           THEN /\ Return(FALSE, 0, <<>>, "struct.error")
                /\ UNCHANGED <<wire, lastRead, attempt, firstTerminal>>
           ELSE \E line \in AckLines :
                  LET p == _read_packet(line)
                  IN  /\ wire' = Append(wire, cmd)
                      /\ lastRead' = p
                      /\ firstTerminal' = (firstTerminal \/ (attempt = 0 /\ TerminalStatus(p)))
                      /\ IF image_2_template(p)
                         THEN /\ pc' = "match"
                              /\ UNCHANGED <<attempt, result, conn>>
                         ELSE AuthNextAttempt
    /\ UNCHANGED <<wf, template, dlReply, acc, rx, capPattern, codecVars, normVars, lineVars, concVars>>

\* match_templates() in the attempt loop
AuthMatch ==
    /\ wf = "auth" /\ pc = "match"
    /\ LET cmd == Command(<<CMD_MATCH>>)
       IN  IF WriteRaises(cmd)
           THEN /\ Return(FALSE, 0, <<>>, "struct.error")
                /\ UNCHANGED <<wire, lastRead, attempt>>
           ELSE \E line \in MatchLines :
                  LET p == _read_packet(line)
                      m == match_templates(p)
                  IN  /\ wire' = Append(wire, cmd)
                      /\ lastRead' = p
                      /\ IF m[1]
                         THEN /\ Return(TRUE, m[2], <<>>, "success")
                              /\ UNCHANGED attempt
                         ELSE AuthNextAttempt
    /\ UNCHANGED <<wf, template, dlReply, acc, rx, capPattern, firstTerminal, codecVars, normVars, lineVars, concVars>>

\* the command each position of authenticate_user_with_template sends
AuthCommandAt(at) ==
    IF at = "download" THEN Command(<<CMD_DOWN_CHAR, 1>>)
    ELSE IF at = "get_image" THEN Command(<<CMD_GET_IMAGE>>)
    ELSE IF at = "img2tz" THEN Command(<<CMD_IMG_2_TZ, auth_live_buffer_id>>)
    ELSE Command(<<CMD_MATCH>>)

\* the serial port fails (serial.SerialException) inside the write of a
\* command or inside the read of its reply: `except Exception` returns the
\* failure
AuthSerialError ==
    /\ wf = "auth" /\ pc \in {"download", "get_image", "img2tz", "match"}
    /\ \E written \in BOOLEAN :
          wire' = IF written THEN Append(wire, AuthCommandAt(pc)) ELSE wire
    /\ Return(FALSE, 0, <<>>, "serial.error")
    /\ UNCHANGED <<wf, template, attempt, lastRead, dlReply, acc, rx,
                   capPattern, firstTerminal, codecVars, normVars, lineVars, concVars>>

(***************************************************************************)
(* capture_fingerprint_template_data (R307FingerCapture)                   *)
(***************************************************************************)
capture_max_attempts == 10

\* the call, and connect_sensor() succeeds
CapConnect ==
    /\ pc = "idle"
    /\ wf' = "capture"
    /\ conn' = "open"
    /\ pc' = "get_image"
    /\ UNCHANGED <<template, attempt, wire, lastRead, dlReply, acc, rx, result,
                   capPattern, firstTerminal, codecVars, normVars, lineVars, concVars>>

\* the call, and connect_sensor() fails: return None
CapConnectFails ==
    /\ pc = "idle"
    /\ wf' = "capture"
    /\ Return(FALSE, 0, <<>>, "connect")
    /\ UNCHANGED <<template, attempt, wire, lastRead, dlReply, acc, rx,
                   capPattern, firstTerminal, codecVars, normVars, lineVars, concVars>>

\* Step 1: get_image() in the for loop; `break` on True, the else clause of
\* the loop returns None after the last attempt
CapGetImage ==
    /\ wf = "capture" /\ pc = "get_image"
    /\ LET cmd == Command(<<CMD_GET_IMAGE>>)
       IN  IF WriteRaises(cmd)
           THEN /\ Return(FALSE, 0, <<>>, "struct.error")
                /\ UNCHANGED <<wire, lastRead, attempt, capPattern, firstTerminal>>
           ELSE \E line \in AckLines :
                  LET p == _read_packet(line)
                  IN  /\ wire' = Append(wire, cmd)
                      /\ lastRead' = p
                      /\ capPattern' = NextPattern(capPattern, p)
                      /\ firstTerminal' = (firstTerminal \/ (attempt = 0 /\ TerminalStatus(p)))
                      /\ IF get_image(p)
                         THEN /\ pc' = "img2tz"
                              /\ UNCHANGED <<attempt, result, conn>>
                         ELSE /\ attempt' = attempt + 1
                              /\ IF attempt + 1 < capture_max_attempts
                                 THEN UNCHANGED <<pc, result, conn>>
                                 ELSE Return(FALSE, 0, <<>>, "exhausted")
    /\ UNCHANGED <<wf, template, dlReply, acc, rx, codecVars, normVars, lineVars, concVars>>

\* Step 2: image_2_template(buffer_id=1)
CapImage2Tz ==
    /\ wf = "capture" /\ pc = "img2tz"
    /\ LET cmd == Command(<<CMD_IMG_2_TZ, 1>>)
       IN  IF WriteRaises(cmd)
           THEN /\ Return(FALSE, 0, <<>>, "struct.error")
                /\ UNCHANGED <<wire, lastRead, firstTerminal>>
           ELSE \E line \in AckLines :
                  LET p == _read_packet(line)
                  IN  /\ wire' = Append(wire, cmd)
                      /\ lastRead' = p
                      /\ firstTerminal' = (firstTerminal \/ (attempt = 0 /\ TerminalStatus(p)))
                      /\ IF image_2_template(p)
                         THEN /\ pc' = "upload"
                              /\ UNCHANGED <<result, conn>>
                         ELSE Return(FALSE, 0, <<>>, "convert")
    /\ UNCHANGED <<wf, template, attempt, dlReply, acc, rx, capPattern, codecVars, normVars, lineVars, concVars>>

\* Step 3, upload_template(buffer_id=1): the command and its Ack; a refusal
\* makes upload_template return None, and the workflow with it
CapUploadCommand ==
    /\ wf = "capture" /\ pc = "upload"
    /\ LET cmd == Command(<<CMD_UP_CHAR, 1>>)
       IN  IF WriteRaises(cmd)
           THEN /\ Return(FALSE, 0, <<>>, "struct.error")
                /\ UNCHANGED <<wire, lastRead>>
           ELSE \E line \in AckLines :
                  LET p == _read_packet(line)
                  IN  /\ wire' = Append(wire, cmd)
                      /\ lastRead' = p
                      /\ IF TransferRefused(p)
                         THEN Return(FALSE, 0, <<>>, "upload")
                         ELSE /\ pc' = "upload_read"
                              /\ UNCHANGED <<result, conn>>
    /\ UNCHANGED <<wf, template, attempt, dlReply, acc, rx, capPattern,
                   firstTerminal, codecVars, normVars, lineVars, concVars>>

\* data + template_data: a faulty variant, which C4 tells from the method
UploadPrepend(template_data, data) == data \o template_data

\* template_data += data
UploadAppend(template_data, data) == template_data \o data

\* the if / elif / else with every packet that is not EndOfData taken for
\* data: a faulty variant, which C16 tells from the method
upload_branch_lenient(packet_type) ==
    IF packet_type = FINGERPRINT_ENDDATAPACKET THEN "enddata"
    ELSE "data"

\* the if / elif / else on the packet type in upload_template's loop
upload_branch(packet_type) ==
    IF packet_type = FINGERPRINT_DATAPACKET THEN "data"
    ELSE IF packet_type = FINGERPRINT_ENDDATAPACKET THEN "enddata"
    ELSE "unexpected"

\* one pass of upload_template's `while True`: a Data packet is appended; an
\* EndOfData packet is appended and ends the loop, after which an empty
\* template counts as a failure (`if not template_data`); anything else
\* returns None
CapUploadRead ==
    /\ wf = "capture" /\ pc = "upload_read"
    /\ \E q \in UpPackets :
          LET p == _read_packet(UpLine(q))
          IN  /\ lastRead' = p
              /\ rx' = Append(rx, q)
              /\ IF upload_branch(p.packet_type) = "data"
                 THEN /\ acc' = UploadAppend(acc, p.data)
                      /\ UNCHANGED <<pc, result, conn>>
                 ELSE IF upload_branch(p.packet_type) = "enddata"
                 THEN /\ acc' = UploadAppend(acc, p.data)
                      /\ IF acc' = <<>>
                         THEN Return(FALSE, 0, <<>>, "upload")
                         ELSE Return(TRUE, 0, acc', "success")
                 ELSE /\ Return(FALSE, 0, <<>>, "upload")
                      /\ UNCHANGED acc
    /\ UNCHANGED <<wf, template, attempt, wire, dlReply, capPattern,
                   firstTerminal, codecVars, normVars, lineVars, concVars>>

\* the command each position of capture_fingerprint_template_data sends
CapCommandAt(at) ==
    IF at = "get_image" THEN Command(<<CMD_GET_IMAGE>>)
    ELSE IF at = "img2tz" THEN Command(<<CMD_IMG_2_TZ, 1>>)
    ELSE Command(<<CMD_UP_CHAR, 1>>)

\* the serial port fails inside a write or a read: `except Exception`
\* returns None
CapSerialError ==
    /\ wf = "capture" /\ pc \in {"get_image", "img2tz", "upload", "upload_read"}
    /\ \E written \in BOOLEAN :
          wire' = IF written /\ pc # "upload_read"
                  THEN Append(wire, CapCommandAt(pc)) ELSE wire
    /\ Return(FALSE, 0, <<>>, "serial.error")
    /\ UNCHANGED <<wf, template, attempt, lastRead, dlReply, acc, rx,
                   capPattern, firstTerminal, codecVars, normVars, lineVars, concVars>>

(***************************************************************************)
(* The validation and size normalisation of a received template in         *)
(* capture_and_get_template (R307FingerMatcher).                           *)
(***************************************************************************)
expected_size == 512

\* `if len(template_data) >= 200`: the minimum reasonable template size
min_template_size == 200

\* the block without its truncation branch: a faulty variant, which C9 tells
\* from the method
NormalizePadOnly(template_data) ==
    IF Len(template_data) >= min_template_size
    THEN [accepted |-> TRUE,
          template_data |->
              IF Len(template_data) < expected_size
              THEN template_data \o Const(expected_size - Len(template_data), 0)
              ELSE template_data]
    ELSE [accepted |-> FALSE, template_data |-> template_data]

\* the block after the receive loop: [accepted, template_data]; a template
\* below the minimum size is not normalised, the attempt is given up
\* (`continue`)
NormalizeTemplate(template_data) ==
    IF Len(template_data) >= min_template_size
    THEN [accepted |-> TRUE,
          template_data |->
              IF Len(template_data) > expected_size
              THEN Take(template_data, expected_size)
              ELSE IF Len(template_data) < expected_size
              THEN template_data \o Const(expected_size - Len(template_data), 0)
              ELSE template_data]
    ELSE [accepted |-> FALSE, template_data |-> template_data]

(***************************************************************************)
(* capture_and_get_template (R307FingerMatcher)                            *)
(***************************************************************************)
cgt_max_attempts == 5

\* struct.pack('>BH', b, h)
pack_BH(b, h) ==
    IF pack_B(b).raised \/ pack_H(h).raised THEN Raised
    ELSE Packed(pack_B(b).bytes \o pack_H(h).bytes)

\* `ack_packet and len(ack_packet) > 0 and ack_packet[0] == FINGERPRINT_OK`:
\* ack_packet is the pair _read_packet returned, never empty, and its first
\* component is the packet type
cgt_ack_ok(ack_packet) == ack_packet.packet_type = FINGERPRINT_OK

\* what may arrive in reply to the UploadTemplate command of
\* capture_and_get_template: as for any command, or a packet of type 0
CgtAckLines ==
    AckLines \cup {SensorFrame(0, <<FINGERPRINT_OK>>)}

\* what the sensor may stream after its reply to the upload command:
\* nothing, one EndOfData packet, or a template of 256 bytes in two packets
CgtStreams ==
    {<<>>,
     <<Pkt(FINGERPRINT_ENDDATAPACKET, Fill(128, 0))>>,
     <<Pkt(FINGERPRINT_DATAPACKET, Fill(128, 0)),
       Pkt(FINGERPRINT_ENDDATAPACKET, Fill(128, 16))>>}

\* the call, and connect() succeeds
CgtConnect ==
    /\ pc = "idle"
    /\ wf' = "cgt"
    /\ conn' = "open"
    /\ attempt' = 0
    /\ pc' = "get_image"
    /\ UNCHANGED <<template, wire, lastRead, dlReply, acc, rx, result,
                   capPattern, firstTerminal, codecVars, normVars, lineVars, concVars>>

\* the call, and connect() fails
CgtConnectFails ==
    /\ pc = "idle"
    /\ wf' = "cgt"
    /\ Return(FALSE, 0, <<>>, "connect")
    /\ UNCHANGED <<template, attempt, wire, lastRead, dlReply, acc, rx,
                   capPattern, firstTerminal, codecVars, normVars, lineVars, concVars>>

\* `continue`: the next attempt, or the return after the loop
CgtNextAttempt ==
    /\ attempt' = attempt + 1
    /\ IF attempt + 1 < cgt_max_attempts
       THEN /\ pc' = "get_image"
            /\ UNCHANGED <<result, conn>>
       ELSE Return(FALSE, 0, <<>>, "exhausted")

\* get_image() in the attempt loop
CgtGetImage ==
    /\ wf = "cgt" /\ pc = "get_image"
    /\ LET cmd == Command(<<CMD_GET_IMAGE>>)
       IN  IF WriteRaises(cmd)
           THEN /\ Return(FALSE, 0, <<>>, "struct.error")
                /\ UNCHANGED <<wire, lastRead, attempt, capPattern, firstTerminal>>
           ELSE \E line \in AckLines :
                  LET p == _read_packet(line)
                  IN  /\ wire' = Append(wire, cmd)
                      /\ lastRead' = p
                      /\ capPattern' = NextPattern(capPattern, p)
                      /\ firstTerminal' = (firstTerminal \/ (attempt = 0 /\ TerminalStatus(p)))
                      /\ IF get_image(p)
                         THEN /\ pc' = "img2tz"
                              /\ UNCHANGED <<attempt, result, conn>>
                         ELSE CgtNextAttempt
    /\ UNCHANGED <<wf, template, dlReply, acc, rx, codecVars, normVars, lineVars, concVars>>

\* image_2_template(buffer_id=1) in the attempt loop
CgtImage2Tz ==
    /\ wf = "cgt" /\ pc = "img2tz"
    /\ LET cmd == Command(<<CMD_IMG_2_TZ, 1>>)
       IN  IF WriteRaises(cmd)
           THEN /\ Return(FALSE, 0, <<>>, "struct.error")
                /\ UNCHANGED <<wire, lastRead, attempt, firstTerminal>>
           ELSE \E line \in AckLines :
                  LET p == _read_packet(line)
                  IN  /\ wire' = Append(wire, cmd)
                      /\ lastRead' = p
                      /\ firstTerminal' = (firstTerminal \/ (attempt = 0 /\ TerminalStatus(p)))
                      /\ IF image_2_template(p)
                         THEN /\ pc' = "upload"
                              /\ UNCHANGED <<attempt, result, conn>>
                         ELSE CgtNextAttempt
    /\ UNCHANGED <<wf, template, dlReply, acc, rx, capPattern, codecVars, normVars, lineVars, concVars>>

\* the upload in the attempt loop: the command, its acknowledgement and, when
\* the test of the acknowledgement passes, the receive loop.  The loop's
\* first _read_packet returns a pair, which is neither None nor bytes, so the
\* loop ends (`break`) with template_data still empty; an exception inside
\* the read ends the loop the same way.  The size test then decides between
\* the successful return and the next attempt.
CgtUpload ==
    /\ wf = "cgt" /\ pc = "upload"
    /\ LET cmd == Command(pack_BH(CMD_UP_CHAR, 1).bytes)
       IN  IF WriteRaises(cmd)
           THEN /\ Return(FALSE, 0, <<>>, "struct.error")
                /\ UNCHANGED <<wire, lastRead, attempt, rx>>
           ELSE \E line \in CgtAckLines, stream \in CgtStreams :
                  LET ack_packet == _read_packet(line)
                      data_packet == _read_packet(IF stream = <<>> THEN <<>>
                                                  ELSE UpLine(stream[1]))
                      template_data == <<>>
                      n == NormalizeTemplate(template_data)
                  IN  /\ wire' = Append(wire, cmd)
                      /\ rx' = stream
                      /\ IF cgt_ack_ok(ack_packet)
                         THEN /\ lastRead' = data_packet
                              /\ IF n.accepted
                                 THEN /\ Return(TRUE, 0, n.template_data, "success")
                                      /\ UNCHANGED attempt
                                 ELSE CgtNextAttempt
                         ELSE /\ lastRead' = ack_packet
                              /\ CgtNextAttempt
    /\ UNCHANGED <<wf, template, dlReply, acc, capPattern, firstTerminal, codecVars, normVars, lineVars, concVars>>

\* the command each position of capture_and_get_template sends
CgtCommandAt(at) ==
    IF at = "get_image" THEN Command(<<CMD_GET_IMAGE>>)
    ELSE IF at = "img2tz" THEN Command(<<CMD_IMG_2_TZ, 1>>)
    ELSE Command(pack_BH(CMD_UP_CHAR, 1).bytes)

\* the serial port fails inside the write of a command or inside the read of
\* its acknowledgement: `except Exception` returns the failure
CgtSerialError ==
    /\ wf = "cgt" /\ pc \in {"get_image", "img2tz", "upload"}
    /\ \E written \in BOOLEAN :
          wire' = IF written THEN Append(wire, CgtCommandAt(pc)) ELSE wire
    /\ Return(FALSE, 0, <<>>, "serial.error")
    /\ UNCHANGED <<wf, template, attempt, lastRead, dlReply, acc, rx,
                   capPattern, firstTerminal, codecVars, normVars, lineVars, concVars>>

(***************************************************************************)
(* One invocation of one workflow.                                         *)
(***************************************************************************)
Init ==
    /\ WfIdle
    /\ CodecIdle
    /\ NormIdle
    /\ LineIdle
    /\ ConcIdle

Next ==
    \/ AuthConnect
    \/ AuthConnectFails
    \/ AuthDownload
    \/ AuthGetImage
    \/ AuthImage2Tz
    \/ AuthMatch
    \/ AuthSerialError
    \/ CapConnect
    \/ CapConnectFails
    \/ CapGetImage
    \/ CapImage2Tz
    \/ CapUploadCommand
    \/ CapUploadRead
    \/ CapSerialError
    \/ CgtConnect
    \/ CgtConnectFails
    \/ CgtGetImage
    \/ CgtImage2Tz
    \/ CgtUpload
    \/ CgtSerialError

Spec == Init /\ [][Next]_vars

(***************************************************************************)
(* What the histories say.                                                 *)
(***************************************************************************)
\* how many commands with this code were written
CountCmd(code) ==
    Cardinality({i \in 1..Len(wire) :
        /\ wire[i].packet_type = FINGERPRINT_COMMANDPACKET
        /\ wire[i].data[1] = code})

\* the Data and EndOfData packets written, in order
DownloadFrames ==
    SelectSeq(wire, LAMBDA f : f.packet_type \in {FINGERPRINT_DATAPACKET,
                                                   FINGERPRINT_ENDDATAPACKET})

RECURSIVE ConcatData(_)
\* the payloads of a sequence of packets, joined in order
ConcatData(ps) == IF ps = <<>> THEN <<>> ELSE ps[1].data \o ConcatData(Tail(ps))

\* download_template returned True in this invocation: its Ack was Ok and no
\* write of a chunk raised
DownloadSucceeded ==
    /\ wf = "auth"
    /\ IsStatus(dlReply, FINGERPRINT_OK)
    /\ ~(pc = "done" /\ result.message = "struct.error" /\ CountCmd(CMD_GET_IMAGE) = 0)

\* the workflow returned, and not through `except Exception`
Ended == pc = "done" /\ result.message \notin {"struct.error", "serial.error"}

(***************************************************************************)
(* C1  authenticate_user_with_template returns success=True only if, in    *)
(* that invocation, the sensor acknowledged DownloadTemplate(slot 1) with  *)
(* Ok and later acknowledged a MatchTemplates command with Ok; the         *)
(* confidence of a success is the 16-bit value of that acknowledgement,    *)
(* and every failure carries confidence 0.                                 *)
(***************************************************************************)
C1_SuccessOnlyAfterOkMatch ==
    (wf = "auth" /\ pc = "done") =>
        IF result.success
        THEN /\ wire[1] = Command(<<CMD_DOWN_CHAR, 1>>)
             /\ IsStatus(dlReply, FINGERPRINT_OK)
             /\ Len(wire) > 1
             /\ wire[Len(wire)] = Command(<<CMD_MATCH>>)
             /\ IsStatus(lastRead, FINGERPRINT_OK)
             /\ Len(lastRead.data) >= 3
             /\ result.confidence = 256 * lastRead.data[2] + lastRead.data[3]
             /\ result.confidence \in 0..65535
        ELSE result.confidence = 0

\* a success that carries the score 0x0102 of the acknowledgement
C1_Witness ==
    /\ wf = "auth" /\ pc = "done" /\ result.success
    /\ lastRead.data = <<FINGERPRINT_OK, 1, 2>>
    /\ result.confidence = 258

(***************************************************************************)
(* C2  Retry boundedness: when the sensor answers NoFingerPresent to every *)
(* CaptureImage command (and the serial port raises no exception), the     *)
(* workflow issues exactly max_attempts CaptureImage commands (5 in        *)
(* authenticate_user_with_template, 10 in                                  *)
(* capture_fingerprint_template_data), then ends as failed, and issues no  *)
(* ConvertImageToTemplate, UploadTemplate or MatchTemplates command.       *)
(***************************************************************************)
C2_RetryBounded ==
    (capPattern = "nofinger") =>
        /\ CountCmd(CMD_IMG_2_TZ) = 0
        /\ CountCmd(CMD_UP_CHAR) = 0
        /\ CountCmd(CMD_MATCH) = 0
        /\ CountCmd(CMD_GET_IMAGE) <= (IF wf = "capture" THEN 10 ELSE 5)
        /\ Ended => /\ CountCmd(CMD_GET_IMAGE) = (IF wf = "capture" THEN 10 ELSE 5)
                    /\ ~result.success
                    /\ result.message = "exhausted"

\* the capture workflow gave up after ten unanswered prompts
C2_Witness ==
    /\ wf = "capture" /\ Ended /\ capPattern = "nofinger"
    /\ CountCmd(CMD_GET_IMAGE) = 10
    /\ ~result.success

(***************************************************************************)
(* C3  Terminal-status short-circuit: when the sensor answers a terminal   *)
(* status (0x06, 0x07, 0x15 or an unknown code) on the first attempt, to   *)
(* CaptureImage or to ConvertImageToTemplate, the workflow ends as failed  *)
(* immediately and sends no further CaptureImage command.                  *)
(***************************************************************************)
C3_TerminalShortCircuit ==
    firstTerminal =>
        /\ pc = "done"
        /\ ~result.success
        /\ CountCmd(CMD_GET_IMAGE) = 1

(***************************************************************************)
(* C4  Recovery within the attempt budget: for every k < max_attempts, if  *)
(* the sensor answers NoFingerPresent to the first k CaptureImage commands *)
(* and Ok to the (k+1)-th, then Ok to ConvertImageToTemplate and           *)
(* UploadTemplate, and streams a non-empty template ended by EndOfData,    *)
(* capture_fingerprint_template_data sends exactly k+1 CaptureImage        *)
(* commands and returns the uploaded template as success.                  *)
(***************************************************************************)
\* the stream the sensor sent is Data packets closed by one EndOfData packet
StreamComplete ==
    /\ Len(rx) > 0
    /\ rx[Len(rx)].packet_type = FINGERPRINT_ENDDATAPACKET
    /\ \A i \in 1..(Len(rx) - 1) : rx[i].packet_type = FINGERPRINT_DATAPACKET

C4_RecoveryWithinBudget ==
    (wf = "capture" /\ capPattern = "nofinger_ok" /\ StreamComplete
        /\ ConcatData(rx) # <<>>)
    => /\ pc = "done"
       /\ result.success
       /\ result.template = ConcatData(rx)
       /\ attempt < 10
       /\ CountCmd(CMD_GET_IMAGE) = attempt + 1
       /\ \A i \in 1..attempt : wire[i] = Command(<<CMD_GET_IMAGE>>)

\* the finger arrives at the last of the ten attempts and the template comes
\* in three packets
C4_Witness ==
    /\ wf = "capture" /\ pc = "done" /\ result.success
    /\ capPattern = "nofinger_ok"
    /\ attempt = 9
    /\ CountCmd(CMD_GET_IMAGE) = 10
    /\ Len(rx) = 3
    /\ Len(result.template) = 258

(***************************************************************************)
(* C7  Chunking: after an Ok acknowledgement to DownloadTemplate, a        *)
(* template of length L > 0 is sent as ceil(L/128) - 1 Data packets of     *)
(* exactly 128 payload bytes each, followed by one EndOfData packet with   *)
(* the remaining L - 128*(ceil(L/128) - 1) bytes, in that order, and the   *)
(* payloads joined equal the template.                                     *)
(***************************************************************************)
C7_Chunking ==
    (DownloadSucceeded /\ Len(template) > 0) =>
        LET L == Len(template)
            n == (L + 127) \div 128
            fs == DownloadFrames
        IN  /\ Len(fs) = n
            /\ \A i \in 1..(n - 1) :
                  fs[i].packet_type = FINGERPRINT_DATAPACKET /\ Len(fs[i].data) = 128
            /\ fs[n].packet_type = FINGERPRINT_ENDDATAPACKET
            /\ Len(fs[n].data) = L - 128 * (n - 1)
            /\ ConcatData(fs) = template
            /\ \A i \in 1..n : wire[i + 1] = fs[i]

\* 600 bytes: four Data packets of 128 bytes, then EndOfData with 88 bytes
C7_Witness ==
    /\ DownloadSucceeded
    /\ Len(template) = 600
    /\ Len(DownloadFrames) = 5
    /\ DownloadFrames[4].packet_type = FINGERPRINT_DATAPACKET
    /\ Len(DownloadFrames[5].data) = 88

(***************************************************************************)
(* C8  For every template length, a download_template call that reports    *)
(* success has sent exactly one EndOfData packet, and that packet is the   *)
(* last of the stream.                                                     *)
(***************************************************************************)
C8_OneEndOfDataLast ==
    DownloadSucceeded =>
        LET fs == DownloadFrames
        IN  /\ Len(fs) >= 1
            /\ fs[Len(fs)].packet_type = FINGERPRINT_ENDDATAPACKET
            /\ \A i \in 1..(Len(fs) - 1) : fs[i].packet_type = FINGERPRINT_DATAPACKET

(***************************************************************************)
(* C10  Every template crossing the transfer boundary has exactly 512      *)
(* bytes: the template returned by an upload is 512 bytes whatever the     *)
(* sensor streamed, and the payload bytes sent by a download total 512     *)
(* whatever length the caller supplied.  (The empty template, for which    *)
(* download_template sends nothing at all, is C8's case and is left out.)  *)
(***************************************************************************)
C10_TransferSize512 ==
    /\ (wf = "capture" /\ pc = "done" /\ result.success) => Len(result.template) = 512
    /\ (DownloadSucceeded /\ template # <<>>) => Len(ConcatData(DownloadFrames)) = 512

(***************************************************************************)
(* The validation and size normalisation of a received template in         *)
(* capture_and_get_template (R307FingerMatcher), exercised on its own.     *)
(***************************************************************************)
\* lengths of the received templates, around the minimum and the expected size
NormSizes == {0, 1, 150, 199, 200, 201, 256, 462, 511, 512, 513, 562, 600, 1024}

\* number of distinct fill patterns of the received templates
NumNormSeeds == 3

NormInputs ==
    {Fill(n, 64 * sd) : n \in NormSizes, sd \in 1..NumNormSeeds}
    \cup {Const(n, 0) : n \in NormSizes}

NormInit ==
    /\ n_in \in NormInputs
    /\ n_count = 0
    /\ n_first = [accepted |-> FALSE, template_data |-> <<>>]
    /\ n_out = [accepted |-> FALSE, template_data |-> <<>>]
    /\ WfIdle
    /\ CodecIdle
    /\ LineIdle
    /\ ConcIdle

\* the received template is validated and normalised
NormApply ==
    /\ n_count = 0
    /\ n_out' = NormalizeTemplate(n_in)
    /\ n_first' = n_out'
    /\ n_count' = 1
    /\ UNCHANGED <<n_in, wfVars, codecVars, lineVars, concVars>>

\* an accepted, normalised template is normalised once more
NormAgain ==
    /\ n_count = 1
    /\ n_out.accepted
    /\ n_out' = NormalizeTemplate(n_out.template_data)
    /\ n_count' = 2
    /\ UNCHANGED <<n_in, n_first, wfVars, codecVars, lineVars, concVars>>

NormNext == NormApply \/ NormAgain

SpecNorm == NormInit /\ [][NormNext]_vars

\* the first min(n, 512) bytes of t, then zero bytes up to 512
PaddedPrefix(t) ==
    [i \in 1..512 |-> IF i <= Len(t) THEN t[i] ELSE 0]

C11_SessionTeardown ==
    /\ [](pc = "done" =>
             IF result.message = "connect"
             THEN conn = "none" /\ wire = <<>> /\ rx = <<>> /\ lastRead = NoPacket
             ELSE conn = "closed")
    /\ [](pc \notin {"idle", "done"} => conn = "open")
    /\ [][(wire' # wire \/ rx' # rx \/ lastRead' # lastRead) => conn = "open"]_vars
    /\ [][pc = "done" => UNCHANGED <<wire, rx, lastRead, conn>>]_vars

\* capture_and_get_template left through `except Exception` in its third
\* attempt, and the connection is closed
C11_Witness ==
    /\ wf = "cgt" /\ pc = "done"
    /\ result.message = "serial.error"
    /\ attempt = 2
    /\ Len(wire) >= 7
    /\ conn = "closed"

(***************************************************************************)
(* C12  Slot separation: in every run of the Match Workflow every          *)
(* DownloadTemplate command carries slot 1 and every                       *)
(* ConvertImageToTemplate command carries slot 2; the live capture is      *)
(* never converted into the slot that holds the stored template.           *)
(***************************************************************************)
\* the slots named by the commands with this code written so far
SlotsOf(code) ==
    {wire[i].data[2] : i \in {j \in 1..Len(wire) :
        /\ wire[j].packet_type = FINGERPRINT_COMMANDPACKET
        /\ wire[j].data[1] = code
        /\ Len(wire[j].data) >= 2}}

C12_SlotSeparation ==
    wf = "auth" =>
        /\ SlotsOf(CMD_DOWN_CHAR) \subseteq {1}
        /\ SlotsOf(CMD_IMG_2_TZ) \subseteq {2}
        /\ SlotsOf(CMD_DOWN_CHAR) \cap SlotsOf(CMD_IMG_2_TZ) = {}
        /\ \A i \in 1..Len(wire) :
              (wire[i].packet_type = FINGERPRINT_COMMANDPACKET
                  /\ wire[i].data[1] \in {CMD_DOWN_CHAR, CMD_IMG_2_TZ})
              => Len(wire[i].data) = 2

\* a match run that converted the live capture in each of its five attempts
C12_Witness ==
    /\ wf = "auth" /\ pc = "done"
    /\ CountCmd(CMD_DOWN_CHAR) = 1
    /\ CountCmd(CMD_IMG_2_TZ) = 5
    /\ SlotsOf(CMD_DOWN_CHAR) = {1}
    /\ SlotsOf(CMD_IMG_2_TZ) = {2}

(***************************************************************************)
(* authenticate_user_with_template on a serial line that keeps its unread  *)
(* bytes.  The sensor answers each command with some bytes; they join the  *)
(* bytes still unread, in order.  A _read_packet sees the bytes that have  *)
(* arrived before its reads time out (timeout=2), a prefix of the pending  *)
(* bytes, and consumes what its serial reads returned; the rest stays      *)
(* pending for the next _read_packet.  Nothing in the class empties the    *)
(* input buffer.                                                           *)
(***************************************************************************)
\* the number of bytes one _read_packet takes off a line that delivers
\* `line` before the timeout: a short read returns, and so consumes, all
\* there is; a wrong start code ends the method after the two header bytes;
\* a whole packet is consumed up to its checksum
Consumed(line) ==
    IF Len(line) < 2 THEN Len(line)
    ELSE IF unpack_H(Take(line, 2)) # FINGERPRINT_STARTCODE THEN 2
    ELSE IF Len(line) < 9 THEN Len(line)
    ELSE MinOf(Len(line), 9 + unpack_H(SubSeq(line, 8, 9)))

\* the most reads of one run that end before all pending bytes have arrived
MaxLate == 2

\* what the sensor sends in reply to a command with a one-byte status
\* (<<>>: nothing)
LineAcks ==
    {SensorFrame(FINGERPRINT_ACKPACKET, <<FINGERPRINT_OK>>),
     SensorFrame(FINGERPRINT_ACKPACKET, <<FINGERPRINT_NOFINGER>>),
     <<>>}

\* what the sensor sends in reply to MatchTemplates
LineMatchAcks ==
    {SensorFrame(FINGERPRINT_ACKPACKET, <<FINGERPRINT_OK, 0, 77>>),
     SensorFrame(FINGERPRINT_ACKPACKET, <<FINGERPRINT_NOMATCH, 0, 0>>),
     <<>>}

\* how many of the pending bytes q, the last of them the reply to the
\* command just written, arrive in time for the read: all of them; only
\* those of earlier replies; or the reply up to a point inside its header
\* or its payload
ArrivalCuts(q, reply) ==
    LET old == Len(q) - Len(reply)
    IN  {Len(q), old} \cup {old + j : j \in {j \in {1, 5, 10} : j < Len(reply)}}

\* the sensor replies to the command just written and _read_packet runs
LineRead(reply, cut) ==
    LET q == l_pending \o reply
        tags == l_tags \o [j \in 1..Len(reply) |-> l_cmds + 1]
        line == Take(q, cut)
    IN  /\ cut = Len(q) \/ l_late < MaxLate
        /\ l_late' = IF cut = Len(q) THEN l_late ELSE l_late + 1
        /\ l_got' = _read_packet(line)
        /\ l_pending' = Drop(q, Consumed(line))
        /\ l_tags' = Drop(tags, Consumed(line))
        /\ l_src' = {tags[j] : j \in 1..Consumed(line)}

\* a return of the method
LineReturn(success, confidence) ==
    /\ l_result' = [success |-> success, confidence |-> confidence]
    /\ l_pc' = "done"

\* `continue`, or the end of an iteration
LineNextAttempt ==
    /\ l_attempt' = l_attempt + 1
    /\ IF l_attempt + 1 < auth_max_attempts
       THEN /\ l_pc' = "get_image"
            /\ UNCHANGED l_result
       ELSE LineReturn(FALSE, 0)

\* the call; connect() opens the port with an empty input buffer
LineConnect ==
    /\ l_pc = "idle"
    /\ l_pc' = "download"
    /\ UNCHANGED <<l_attempt, l_pending, l_cmds, l_late, l_got, l_result,
                   l_tags, l_src, wfVars, codecVars, normVars, concVars>>

\* download_template(template_data, buffer_id=1); the chunks are written
\* without a read
LineDownload ==
    /\ l_pc = "download"
    /\ l_cmds' = l_cmds + 1
    /\ \E reply \in LineAcks :
          \E cut \in ArrivalCuts(l_pending \o reply, reply) :
             /\ LineRead(reply, cut)
             /\ IF TransferRefused(l_got')
                THEN LineReturn(FALSE, 0)
                ELSE /\ l_pc' = "get_image"
                     /\ UNCHANGED l_result
    /\ UNCHANGED <<l_attempt, wfVars, codecVars, normVars, concVars>>

\* get_image() in the attempt loop
LineGetImage ==
    /\ l_pc = "get_image"
    /\ l_cmds' = l_cmds + 1
    /\ \E reply \in LineAcks :
          \E cut \in ArrivalCuts(l_pending \o reply, reply) :
             /\ LineRead(reply, cut)
             /\ IF get_image(l_got')
                THEN /\ l_pc' = "img2tz"
                     /\ UNCHANGED <<l_attempt, l_result>>
                ELSE LineNextAttempt
    /\ UNCHANGED <<wfVars, codecVars, normVars, concVars>>

\* image_2_template(buffer_id=2) in the attempt loop
LineImage2Tz ==
    /\ l_pc = "img2tz"
    /\ l_cmds' = l_cmds + 1
    /\ \E reply \in LineAcks :
          \E cut \in ArrivalCuts(l_pending \o reply, reply) :
             /\ LineRead(reply, cut)
             /\ IF image_2_template(l_got')
                THEN /\ l_pc' = "match"
                     /\ UNCHANGED <<l_attempt, l_result>>
                ELSE LineNextAttempt
    /\ UNCHANGED <<wfVars, codecVars, normVars, concVars>>

\* match_templates() in the attempt loop
LineMatch ==
    /\ l_pc = "match"
    /\ l_cmds' = l_cmds + 1
    /\ \E reply \in LineMatchAcks :
          \E cut \in ArrivalCuts(l_pending \o reply, reply) :
             /\ LineRead(reply, cut)
             /\ LET m == match_templates(l_got')
                IN  IF m[1]
                    THEN /\ LineReturn(TRUE, m[2])
                         /\ UNCHANGED l_attempt
                    ELSE LineNextAttempt
    /\ UNCHANGED <<wfVars, codecVars, normVars, concVars>>

LineInit ==
    /\ LineIdle
    /\ ConcIdle
    /\ WfIdle
    /\ CodecIdle
    /\ NormIdle

LineNext ==
    \/ LineConnect
    \/ LineDownload
    \/ LineGetImage
    \/ LineImage2Tz
    \/ LineMatch

SpecLine == LineInit /\ [][LineNext]_vars

(***************************************************************************)
(* C13  Strict request/response: within one workflow, no command packet is *)
(* written while bytes of the reply to an earlier command are still        *)
(* unconsumed, whenever those bytes arrive: in time, late, in part, or     *)
(* after the read timeout.                                                 *)
(***************************************************************************)
C13_StrictRequestResponse ==
    [][l_cmds' # l_cmds => l_pending = <<>>]_vars

(***************************************************************************)
(* What the latest command transaction of a workflow was.                  *)
(***************************************************************************)
\* the latest packet written is this command, and lastRead is the outcome of
\* the read that followed it
JustAnswered(cmd) ==
    /\ Len(wire) > 0
    /\ wire[Len(wire)] = cmd
    /\ ~(pc = "done" /\ result.message \in {"struct.error", "serial.error"})

(***************************************************************************)
(* C14  Match outcome states: a NoMatch status (0x08) in reply to          *)
(* MatchTemplates ends the Match Workflow at once, as not matched with     *)
(* confidence 0: no further capture or match command is sent.  (That a     *)
(* caller can tell this outcome from a failure is left out: the ending     *)
(* alone fails.)                                                           *)
(***************************************************************************)
C14_NoMatchEndsWorkflow ==
    (wf = "auth" /\ JustAnswered(Command(<<CMD_MATCH>>))
        /\ IsStatus(lastRead, FINGERPRINT_NOMATCH) /\ Len(lastRead.data) >= 3)
    => /\ pc = "done"
       /\ ~result.success
       /\ result.confidence = 0

(***************************************************************************)
(* C15  Framing errors are not retried: when the acknowledgement to a      *)
(* command cannot be read as a frame (bad start marker, truncated frame,   *)
(* or read timeout), the workflow sends no other command; it ends and      *)
(* returns the failure to its caller.                                      *)
(***************************************************************************)
C15_FramingErrorEndsWorkflow ==
    (wf \in {"auth", "capture"} /\ Len(wire) > 0
        /\ wire[Len(wire)].packet_type = FINGERPRINT_COMMANDPACKET
        /\ JustAnswered(wire[Len(wire)])
        /\ lastRead = NoPacket)
    => /\ pc = "done"
       /\ ~result.success

(***************************************************************************)
(* C16  Upload protocol violation: if, after an Ok acknowledgement to      *)
(* UploadTemplate, a frame whose type is neither Data nor EndOfData (or no *)
(* readable frame at all) comes before the EndOfData frame,                *)
(* upload_template gives up the whole operation: it returns no template,   *)
(* never a partial one, reads no further frame, and the capture workflow   *)
(* ends as failed.                                                         *)
(***************************************************************************)
C16_UploadProtocolViolation ==
    \A i \in 1..Len(rx) :
        (/\ wf = "capture"
         /\ rx[i].packet_type \notin {FINGERPRINT_DATAPACKET, FINGERPRINT_ENDDATAPACKET}
         /\ \A j \in 1..(i - 1) : rx[j].packet_type = FINGERPRINT_DATAPACKET)
        => /\ i = Len(rx)
           /\ pc = "done"
           /\ ~result.success
           /\ result.template = <<>>
           /\ result.message = "upload"

\* an Ack packet arrived after two Data packets of 128 bytes: the 256 bytes
\* received are not returned
C16_Witness ==
    /\ wf = "capture" /\ pc = "done"
    /\ Len(rx) = 3
    /\ rx[3].packet_type = FINGERPRINT_ACKPACKET
    /\ Len(acc) = 256
    /\ result.template = <<>>
    /\ ~result.success

(***************************************************************************)
(* C17  Nothing is stored on the sensor and the live template is never     *)
(* extracted: the Match Workflow sends only the commands DownloadTemplate, *)
(* CaptureImage, ConvertImageToTemplate and MatchTemplates (never          *)
(* UploadTemplate), and no workflow sends a command that writes a template *)
(* into the sensor's own library.                                          *)
(***************************************************************************)
\* the codes of the command packets written so far
CommandCodes ==
    {wire[i].data[1] : i \in {j \in 1..Len(wire) :
        wire[j].packet_type = FINGERPRINT_COMMANDPACKET}}

\* the R307 instructions that change the sensor's template library:
\* Store (0x06), DeletChar (0x0C), Empty (0x0D)
LibraryWritingCodes == {6, 12, 13}

C17_NothingStoredOnSensor ==
    /\ wf = "auth" =>
          CommandCodes \subseteq {CMD_DOWN_CHAR, CMD_GET_IMAGE, CMD_IMG_2_TZ, CMD_MATCH}
    /\ wf = "auth" => CMD_UP_CHAR \notin CommandCodes
    /\ CommandCodes \cap LibraryWritingCodes = {}
    /\ CommandCodes \subseteq
          {CMD_DOWN_CHAR, CMD_GET_IMAGE, CMD_IMG_2_TZ, CMD_MATCH, CMD_UP_CHAR}

\* a match run that used its five attempts and sent each of its four commands
C17_Witness ==
    /\ wf = "auth" /\ pc = "done" /\ attempt = 5
    /\ CommandCodes = {CMD_DOWN_CHAR, CMD_GET_IMAGE, CMD_IMG_2_TZ, CMD_MATCH}
    /\ CountCmd(CMD_MATCH) = 5

(***************************************************************************)
(* C18  As claimed: whenever the sensor acknowledges MatchTemplates with   *)
(* status Ok, the Match Workflow ends as matched in that attempt (no       *)
(* further command is sent) and the reported confidence is the 2-byte      *)
(* big-endian value that follows the status byte in the payload.           *)
(***************************************************************************)
C18_OkAckMatches ==
    (wf = "auth" /\ JustAnswered(Command(<<CMD_MATCH>>))
        /\ IsStatus(lastRead, FINGERPRINT_OK))
    => /\ pc = "done"
       /\ result.success
       /\ Len(lastRead.data) >= 3
       /\ result.confidence = 256 * lastRead.data[2] + lastRead.data[3]

(***************************************************************************)
(* C18, amended: whenever the sensor acknowledges MatchTemplates with      *)
(* status Ok and the two confidence bytes (a payload of at least 3 bytes), *)
(* the Match Workflow ends as matched in that attempt and reports the      *)
(* 2-byte big-endian value that follows the status byte; an Ok             *)
(* acknowledgement with a shorter payload counts as no match, and the      *)
(* workflow goes on to its next attempt.                                   *)
(***************************************************************************)
C18_OkAckWithScoreMatches ==
    (wf = "auth" /\ JustAnswered(Command(<<CMD_MATCH>>))
        /\ IsStatus(lastRead, FINGERPRINT_OK))
    => IF Len(lastRead.data) >= 3
       THEN /\ pc = "done"
            /\ result.success
            /\ result.message = "success"
            /\ result.confidence = 256 * lastRead.data[2] + lastRead.data[3]
       ELSE /\ ~result.success
            /\ attempt > 0
            /\ pc = (IF attempt < 5 THEN "get_image" ELSE "done")

\* a match in the third attempt with the highest score
C18_Witness ==
    /\ wf = "auth" /\ pc = "done" /\ result.success
    /\ attempt = 2
    /\ CountCmd(CMD_MATCH) = 3
    /\ lastRead.data = <<FINGERPRINT_OK, 255, 255>>
    /\ result.confidence = 65535

(***************************************************************************)
(* C19  Match ordering: a MatchTemplates command is sent only after the    *)
(* stored template was downloaded into slot 1 and, in the same attempt,    *)
(* CaptureImage and ConvertImageToTemplate(slot 2) were both acknowledged  *)
(* Ok; so at every MatchTemplates command slot 1 has been sent the         *)
(* caller's stored template, whole and closed by EndOfData, and slot 2 the *)
(* conversion of the latest capture, also on the 2nd to 5th attempt.       *)
(***************************************************************************)
\* the sensor was sent the whole stored template for slot 1
StoredTemplateLoaded ==
    /\ Len(wire) > 0
    /\ wire[1] = Command(<<CMD_DOWN_CHAR, 1>>)
    /\ IsStatus(dlReply, FINGERPRINT_OK)
    /\ DownloadFrames # <<>>
    /\ DownloadFrames[Len(DownloadFrames)].packet_type = FINGERPRINT_ENDDATAPACKET
    /\ ConcatData(DownloadFrames) = template

\* every MatchTemplates command follows a CaptureImage and a
\* ConvertImageToTemplate(slot 2) command directly
MatchFollowsCaptureAndConvert ==
    \A i \in 1..Len(wire) :
        wire[i] = Command(<<CMD_MATCH>>) =>
            /\ i > 2
            /\ wire[i - 1] = Command(<<CMD_IMG_2_TZ, 2>>)
            /\ wire[i - 2] = Command(<<CMD_GET_IMAGE>>)

C19_MatchOrdering ==
    /\ []((wf = "auth" /\ CountCmd(CMD_MATCH) > 0) =>
             (StoredTemplateLoaded /\ MatchFollowsCaptureAndConvert))
    /\ [][(wf = "auth" /\ pc' = "img2tz") =>
             (pc = "get_image" /\ IsStatus(lastRead', FINGERPRINT_OK)
                 /\ attempt' = attempt)]_vars
    /\ [][(wf = "auth" /\ pc' = "match") =>
             (pc = "img2tz" /\ IsStatus(lastRead', FINGERPRINT_OK)
                 /\ attempt' = attempt)]_vars
    /\ [][(wf = "auth" /\ CountCmd(CMD_MATCH)' > CountCmd(CMD_MATCH)) =>
             pc = "match"]_vars

(***************************************************************************)
(* C20  Capture Workflow transitions: capture_fingerprint_template_data    *)
(* sends commands only in the order CaptureImage (repeated until the first *)
(* Ok), then ConvertImageToTemplate(slot 1) exactly once, then             *)
(* UploadTemplate(slot 1) exactly once; a non-Ok reply to                  *)
(* ConvertImageToTemplate ends the workflow as failed without any          *)
(* UploadTemplate and without a new CaptureImage; once the workflow has    *)
(* ended no further frame is sent.                                         *)
(***************************************************************************)
\* the packets written are CaptureImage commands, then at most one
\* ConvertImageToTemplate(slot 1), then at most one UploadTemplate(slot 1)
CaptureOrder ==
    LET k == CountCmd(CMD_GET_IMAGE)
    IN  /\ \A i \in 1..k : wire[i] = Command(<<CMD_GET_IMAGE>>)
        /\ Len(wire) <= k + 2
        /\ Len(wire) > k => wire[k + 1] = Command(<<CMD_IMG_2_TZ, 1>>)
        /\ Len(wire) > k + 1 => wire[k + 2] = Command(<<CMD_UP_CHAR, 1>>)

C20_CaptureTransitions ==
    /\ [](wf = "capture" => CaptureOrder)
    /\ []((wf = "capture" /\ pc = "done" /\ result.success) =>
             (CountCmd(CMD_IMG_2_TZ) = 1 /\ CountCmd(CMD_UP_CHAR) = 1))
    /\ []((wf = "capture" /\ JustAnswered(Command(<<CMD_IMG_2_TZ, 1>>))
              /\ ~IsStatus(lastRead, FINGERPRINT_OK)) =>
             (pc = "done" /\ ~result.success /\ CountCmd(CMD_UP_CHAR) = 0))
    /\ [][(wf = "capture" /\ pc' = "img2tz") =>
             (pc = "get_image" /\ IsStatus(lastRead', FINGERPRINT_OK))]_vars
    /\ [][(wf = "capture" /\ pc = "get_image" /\ wire' # wire
              /\ IsStatus(lastRead', FINGERPRINT_OK)) => pc' = "img2tz"]_vars
    /\ [][(wf = "capture" /\ pc = "done") => UNCHANGED <<wire, rx, lastRead, pc>>]_vars

\* the conversion was refused after the third CaptureImage: no upload, no
\* fourth CaptureImage
C20_Witness ==
    /\ wf = "capture" /\ pc = "done"
    /\ result.message = "convert"
    /\ IsStatus(lastRead, FINGERPRINT_FEATUREFAIL)
    /\ CountCmd(CMD_GET_IMAGE) = 3
    /\ CountCmd(CMD_IMG_2_TZ) = 1
    /\ CountCmd(CMD_UP_CHAR) = 0

(***************************************************************************)
(* C21  Upload reassembly: after an Ok acknowledgement to UploadTemplate,  *)
(* for a stream of n >= 0 Data frames followed by one EndOfData frame,     *)
(* upload_template returns exactly the payloads of the n Data frames and   *)
(* of the EndOfData frame joined in arrival order, and reads no frame      *)
(* after the EndOfData frame.                                              *)
(***************************************************************************)
C21_UploadReassembly ==
    (wf = "capture" /\ StreamComplete) =>
        /\ acc = ConcatData(rx)
        /\ pc = "done"
        /\ lastRead = rx[Len(rx)]
        /\ result.success = (acc # <<>>)
        /\ result.success => result.template = ConcatData(rx)

\* four Data frames (128, 0, 2 and 128 bytes) and an EndOfData frame of 2
\* bytes were joined in order
C21_Witness ==
    /\ wf = "capture" /\ pc = "done" /\ StreamComplete
    /\ Len(rx) = 5
    /\ Len(rx[2].data) = 0
    /\ Len(rx[3].data) = 2
    /\ Len(acc) = 260
    /\ acc[129] = rx[3].data[1]
    /\ acc[259] = rx[5].data[1]
    /\ result.template = acc

(***************************************************************************)
(* C22  Encoding is total with a wrapping checksum: for every packet type  *)
(* and every payload whose length fits the 2-byte length field,            *)
(* _write_packet emits the start marker, the 4-byte address, the type, a   *)
(* length field equal to len(payload) + 2, the payload, and a 2-byte       *)
(* big-endian checksum equal to (packet_type + length_field +              *)
(* sum(payload)) mod 65536, and never fails.                               *)
(***************************************************************************)
\* a 16-bit value as two bytes, most significant first
BigEndian16(v) == <<(v \div 256) % 256, v % 256>>

\* the frame the wire format prescribes for these arguments
PrescribedFrame(address, packet_type, data) ==
    <<239, 1>> \o BigEndian16(address[1]) \o BigEndian16(address[2])
        \o <<packet_type>> \o BigEndian16(Len(data) + 2) \o data
        \o BigEndian16((packet_type + (Len(data) + 2) + SumBytes(data)) % 65536)

C22_EncodingTotal ==
    c_pc # "ready" =>
        /\ ~c_out.raised
        /\ c_out.written = PrescribedFrame(c_in.address, c_in.packet_type, c_in.data)

(***************************************************************************)
(* C23  Address check: _read_packet fails, and delivers no frame to the    *)
(* workflow, whenever the 4-byte device address of the incoming frame      *)
(* differs from the configured device address (the reader's is the default *)
(* address 0xFFFFFFFF).                                                    *)
(***************************************************************************)
C23_AddressChecked ==
    (c_pc = "read" /\ Len(c_line) >= 6
        /\ SubSeq(c_line, 3, 6) # <<255, 255, 255, 255>>)
    => c_got = NoPacket

(***************************************************************************)
(* C24  Download refusal: if the reply to DownloadTemplate is unreadable,  *)
(* is not an Ack frame, has an empty payload or carries a non-Ok status,   *)
(* download_template sends no Data and no EndOfData frame, and             *)
(* authenticate_user_with_template returns failure without sending any     *)
(* CaptureImage, ConvertImageToTemplate or MatchTemplates command.         *)
(***************************************************************************)
C24_DownloadRefusal ==
    (wf = "auth" /\ wire # <<>> /\ ~IsStatus(dlReply, FINGERPRINT_OK)) =>
        /\ wire = <<Command(<<CMD_DOWN_CHAR, 1>>)>>
        /\ DownloadFrames = <<>>
        /\ CountCmd(CMD_GET_IMAGE) = 0
        /\ CountCmd(CMD_IMG_2_TZ) = 0
        /\ CountCmd(CMD_MATCH) = 0
        /\ pc = "done"
        /\ ~result.success
        /\ result.confidence = 0

\* the download of a 600-byte template was refused with a status the class
\* does not name
C24_Witness ==
    /\ wf = "auth" /\ pc = "done"
    /\ result.message = "download"
    /\ IsStatus(dlReply, 85)
    /\ Len(template) = 600
    /\ Len(wire) = 1

(***************************************************************************)
(* Two overlapping requests.  /api/authenticate builds an R307FingerMatcher *)
(* and calls authenticate_user_with_template; /api/capture-fingerprint     *)
(* builds an R307FingerCapture(port='COM3') and calls                      *)
(* capture_fingerprint_template_data.  The handlers share no lock, and     *)
(* connect() opens the port without asking for exclusive access, so        *)
(* whether the second serial.Serial(...) succeeds is the platform's        *)
(* choice: both outcomes are taken.  A step is one blocking serial call    *)
(* of one invocation: the write of a command, or the read of its reply     *)
(* (with what the method does on it before its next serial call).  A reply *)
(* is reduced to the method's verdict on it.                               *)
(***************************************************************************)
\* the positions between the write of a command and the end of the reads
\* that belong to it
AwaitingReply ==
    {"download_ack", "get_image_ack", "img2tz_ack", "match_ack", "upload_ack", "upload_read"}

\* the position after the write of the command at this position
AfterWrite(at) ==
    IF at = "download" THEN "download_ack"
    ELSE IF at = "get_image" THEN "get_image_ack"
    ELSE IF at = "img2tz" THEN "img2tz_ack"
    ELSE IF at = "match" THEN "match_ack"
    ELSE "upload_ack"

\* the attempt budget of each workflow
max_attempts_of(i) == IF i = "auth" THEN auth_max_attempts ELSE capture_max_attempts

\* a return: the finally clause closes the connection
ConcReturn(i) ==
    /\ k_pc' = [k_pc EXCEPT ![i] = "done"]
    /\ k_open' = [k_open EXCEPT ![i] = FALSE]
    /\ UNCHANGED k_attempt

ConcGoto(i, at) ==
    /\ k_pc' = [k_pc EXCEPT ![i] = at]
    /\ UNCHANGED <<k_attempt, k_open>>

\* the next pass of the attempt loop, or the return after it
ConcNextAttempt(i) ==
    /\ k_attempt' = [k_attempt EXCEPT ![i] = @ + 1]
    /\ IF k_attempt[i] + 1 < max_attempts_of(i)
       THEN /\ k_pc' = [k_pc EXCEPT ![i] = "get_image"]
            /\ UNCHANGED k_open
       ELSE /\ k_pc' = [k_pc EXCEPT ![i] = "done"]
            /\ k_open' = [k_open EXCEPT ![i] = FALSE]

\* the request arrives and connect() / connect_sensor() opens the port
ConcConnect ==
    /\ \E i \in Invocations :
          /\ k_pc[i] = "idle"
          /\ k_pc' = [k_pc EXCEPT ![i] = IF i = "auth" THEN "download" ELSE "get_image"]
          /\ k_open' = [k_open EXCEPT ![i] = TRUE]
          /\ UNCHANGED k_attempt
    /\ UNCHANGED <<wfVars, codecVars, normVars, lineVars>>

\* the request arrives and serial.Serial(...) raises SerialException
ConcConnectFails ==
    /\ \E i \in Invocations :
          /\ k_pc[i] = "idle"
          /\ k_pc' = [k_pc EXCEPT ![i] = "done"]
          /\ UNCHANGED <<k_attempt, k_open>>
    /\ UNCHANGED <<wfVars, codecVars, normVars, lineVars>>

\* _write_packet of a command
ConcWrite ==
    /\ \E i \in Invocations :
          /\ k_pc[i] \in {"download", "get_image", "img2tz", "match", "upload"}
          /\ ConcGoto(i, AfterWrite(k_pc[i]))
    /\ UNCHANGED <<wfVars, codecVars, normVars, lineVars>>

\* _read_packet of the reply to a command, and the method's verdict ok on
\* it; download_template writes its chunks after a good reply
ConcRead ==
    /\ \E i \in Invocations, ok \in BOOLEAN :
          /\ k_pc[i] \in AwaitingReply \ {"upload_read"}
          /\ IF k_pc[i] = "download_ack"
             THEN IF ok THEN ConcGoto(i, "get_image") ELSE ConcReturn(i)
             ELSE IF k_pc[i] = "get_image_ack"
             THEN IF ok THEN ConcGoto(i, "img2tz") ELSE ConcNextAttempt(i)
             ELSE IF k_pc[i] = "img2tz_ack"
             THEN IF ok THEN ConcGoto(i, IF i = "auth" THEN "match" ELSE "upload")
                  ELSE IF i = "auth" THEN ConcNextAttempt(i) ELSE ConcReturn(i)
             ELSE IF k_pc[i] = "match_ack"
             THEN IF ok THEN ConcReturn(i) ELSE ConcNextAttempt(i)
             ELSE IF ok THEN ConcGoto(i, "upload_read") ELSE ConcReturn(i)
    /\ UNCHANGED <<wfVars, codecVars, normVars, lineVars>>

\* one _read_packet of upload_template's loop
ConcUploadRead ==
    /\ \E i \in Invocations, packet_type \in {FINGERPRINT_DATAPACKET,
                                             FINGERPRINT_ENDDATAPACKET,
                                             FINGERPRINT_ACKPACKET} :
          /\ k_pc[i] = "upload_read"
          /\ IF upload_branch(packet_type) = "data"
             THEN UNCHANGED <<k_pc, k_attempt, k_open>>
             ELSE ConcReturn(i)
    /\ UNCHANGED <<wfVars, codecVars, normVars, lineVars>>

\* a serial call raises: `except Exception`, then `finally`
ConcSerialError ==
    /\ \E i \in Invocations :
          /\ k_pc[i] \notin {"idle", "done"}
          /\ ConcReturn(i)
    /\ UNCHANGED <<wfVars, codecVars, normVars, lineVars>>

ConcInit ==
    /\ ConcIdle
    /\ WfIdle
    /\ CodecIdle
    /\ NormIdle
    /\ LineIdle

ConcNext ==
    \/ ConcConnect
    \/ ConcConnectFails
    \/ ConcWrite
    \/ ConcRead
    \/ ConcUploadRead
    \/ ConcSerialError

SpecConc == ConcInit /\ [][ConcNext]_vars

C26_ResponseAttribution ==
    (l_got.packet_type = FINGERPRINT_ACKPACKET /\ Len(l_got.data) > 0)
        => l_src = {l_cmds}

(***************************************************************************)
(* C27  authenticate_user_with_template always terminates when every       *)
(* serial read returns: whatever the sensor does, the method makes at most *)
(* 5 attempts and writes at most 1 DownloadTemplate, 5 CaptureImage, 5     *)
(* ConvertImageToTemplate and 5 MatchTemplates commands; until it has      *)
(* returned it can always take a step, and each step either returns or     *)
(* writes one more of these commands.                                      *)
(***************************************************************************)
C27_AuthTerminates ==
    /\ [](wf = "auth" =>
            /\ attempt <= 5
            /\ CountCmd(CMD_DOWN_CHAR) <= 1
            /\ CountCmd(CMD_GET_IMAGE) <= 5
            /\ CountCmd(CMD_IMG_2_TZ) <= 5
            /\ CountCmd(CMD_MATCH) <= 5
            /\ CountCmd(CMD_GET_IMAGE) <= attempt + 1
            /\ (pc # "done" => ENABLED Next))
    /\ [][(wf = "auth" /\ pc # "done") =>
            \/ pc' = "done"
            \/ /\ Len(wire') > Len(wire)
               /\ CountCmd(CMD_DOWN_CHAR)' + CountCmd(CMD_GET_IMAGE)'
                    + CountCmd(CMD_IMG_2_TZ)' + CountCmd(CMD_MATCH)'
                  = CountCmd(CMD_DOWN_CHAR) + CountCmd(CMD_GET_IMAGE)
                    + CountCmd(CMD_IMG_2_TZ) + CountCmd(CMD_MATCH) + 1]_vars

\* a run that used the whole budget: one DownloadTemplate and five of each
\* of the other commands, then the return after the loop
C27_Witness ==
    /\ wf = "auth" /\ pc = "done"
    /\ attempt = 5
    /\ result.message = "exhausted"
    /\ CountCmd(CMD_DOWN_CHAR) = 1
    /\ CountCmd(CMD_GET_IMAGE) = 5
    /\ CountCmd(CMD_IMG_2_TZ) = 5
    /\ CountCmd(CMD_MATCH) = 5

(***************************************************************************)
(* C28  upload_template terminates whenever the sensor's stream of Data    *)
(* frames is finite: its loop ends at the first EndOfData frame, at the    *)
(* first frame of any other non-Data type, or at the first unreadable or   *)
(* timed-out frame, and only there; every Data frame before that point is  *)
(* accepted, however many there are and however many bytes have been       *)
(* accumulated.                                                            *)
(***************************************************************************)
C28_UploadTerminates ==
    /\ [](wf = "capture" =>
            /\ \A i \in 1..(Len(rx) - 1) : rx[i].packet_type = FINGERPRINT_DATAPACKET
            /\ (Len(rx) > 0 /\ rx[Len(rx)].packet_type # FINGERPRINT_DATAPACKET)
                  => pc = "done"
            /\ pc = "upload_read" =>
                  /\ acc = ConcatData(rx)
                  /\ ENABLED Next)
    /\ [][(wf = "capture" /\ pc = "upload_read") =>
            /\ pc' = "done" \/ Len(rx') = Len(rx) + 1
            /\ (pc' = "upload_read") =
                  (Len(rx') = Len(rx) + 1
                     /\ rx'[Len(rx')].packet_type = FINGERPRINT_DATAPACKET)]_vars

\* the loop has taken as many full Data frames as the sensor sent, is still
\* reading, and then ends on a read that times out
C28_Witness ==
    /\ wf = "capture" /\ pc = "done"
    /\ Len(rx) = MaxUpFrames + 1
    /\ rx[Len(rx)] = NoPacket
    /\ Len(acc) = 128 * MaxUpFrames
    /\ ~result.success

(***************************************************************************)
(* C29  Every frame download_template sends is a Data or EndOfData frame   *)
(* with a payload of at most 128 bytes, so packet_type + (len(payload) + 2) *)
(* + sum(payload) is at most 65535 whatever the bytes are: the checksum is *)
(* written without wraparound and the encoding of a frame never fails      *)
(* during a download.                                                      *)
(***************************************************************************)
C29_DownloadChecksumFits ==
    /\ [](wf = "auth" => ~(pc = "done" /\ result.message = "struct.error"))
    /\ [][(wf = "auth" /\ pc = "download") =>
            /\ \A i \in 1..Len(DownloadFrames') :
                  LET f == DownloadFrames'[i]
                  IN  /\ Len(f.data) <= 128
                      /\ f.packet_type + (Len(f.data) + 2) + SumBytes(f.data) <= 65535
                      /\ ~WriteRaises(f)
            /\ (pc' = "get_image") => ConcatData(DownloadFrames') = template]_vars

\* a template of 512 bytes 0xFF went out in four frames, the last with the
\* largest sum a frame of a download can have
C29_Witness ==
    /\ DownloadSucceeded
    /\ template = Const(512, 255)
    /\ Len(DownloadFrames) = 4
    /\ Checksum(DownloadFrames[4].packet_type, DownloadFrames[4].data) = 32778
    /\ Checksum(DownloadFrames[1].packet_type, DownloadFrames[1].data) = 32772

(***************************************************************************)
(* C30  capture_and_get_template returns (True, template) with a template  *)
(* of exactly 512 bytes whenever, in some attempt, the sensor acknowledges *)
(* CaptureImage, ConvertImageToTemplate(slot 1) and the upload command     *)
(* with Ok Ack frames and then streams at least 200 template bytes in      *)
(* Data / EndOfData frames.  (The state is the one right after the upload  *)
(* step of such an attempt: the upload command is the latest packet        *)
(* written, which the method reaches only after Ok to the two commands     *)
(* before it.)                                                             *)
(***************************************************************************)
C30_CgtSucceedsOnStream ==
    (/\ wf = "cgt"
     /\ JustAnswered(Command(pack_BH(CMD_UP_CHAR, 1).bytes))
     /\ IsStatus(lastRead, FINGERPRINT_OK)
     /\ Len(ConcatData(rx)) >= min_template_size)
    => /\ pc = "done"
       /\ result.success
       /\ Len(result.template) = expected_size

=============================================================================
